---- MODULE Spec2Model ----
(***************************************************************************)
(* A model of expander-exec (src/gkr/src/exec.rs): the proof codec, the    *)
(* field-type detector, the argument handling and dispatch of main, the    *)
(* one-shot prove and verify commands, and the serve command with its      *)
(* three guarded resources (Circuit, Prover, Verifier).                    *)
(*                                                                         *)
(* Bytes are naturals 0..255.  A usize is 64 bits wide (the code targets   *)
(* 64-bit hosts); because TLC's integers are 32 bits wide, a u64 is kept   *)
(* as three limbs, value = l0 + 2^24 * l1 + 2^48 * l2 with l0, l1 < 2^24   *)
(* and l2 < 2^16, and the arithmetic below is exact on that form.          *)
(***************************************************************************)
EXTENDS Integers, Sequences, FiniteSets, TLC

VARIABLES
    \* the build
    overflow_checks,   \* TRUE: debug profile, usize overflow panics; FALSE: it wraps
    panic_abort,       \* TRUE: panic = "abort"; FALSE: a panic unwinds its thread
    \* the process (main and the one-shot commands)
    args,              \* std::env::args()
    pc,                \* position of main / run_command
    stdout,            \* lines printed with println!
    exit_code,         \* -1 while the process runs, else its exit status
    fs,                \* the files: circuit, witness, proof/output
    fs_reads,          \* names of the files read so far
    fs_writes,         \* number of fs::write calls made
    mpi_config,        \* [world_rank, world_size]
    field_type,        \* result of detect_field_type_from_circuit_file
    config,            \* the configuration run_command was instantiated with
    run_count,         \* number of run_command invocations
    circuit,           \* the Circuit: [loaded, witness, public_input]
    result,            \* one-shot prove: the (claimed_v, proof) the prover returned
    \* the service
    guard,             \* owner of each Mutex (0: free)
    poisoned,          \* poison flag of each Mutex
    req,               \* the requests, one handler task each
    now,               \* the wall clock read by Utc::now()
    ready_time,        \* the timestamp taken when the service is set up (-1: none)
    ready_seen,        \* the responses the ready handler has given
    \* the codec on its own
    codec,             \* [pc, proof, claimed_v, bytes, cut, loaded]
    \* the run of the program that ended before this one, on the same files
    prev               \* [args, mpi_config, exit_code, result, fs_writes]

buildVars == <<overflow_checks, panic_abort>>
mainVars == <<args, pc, stdout, exit_code, fs, fs_reads, fs_writes, mpi_config,
              field_type, config, run_count, result>>
serveVars == <<guard, poisoned, req>>
vars == <<overflow_checks, panic_abort, args, pc, stdout, exit_code, fs, fs_reads,
          fs_writes, mpi_config, field_type, config, run_count, circuit, result,
          guard, poisoned, req, now, ready_time, ready_seen, codec, prev>>

(***************************************************************************)
(* Bounds of the model.                                                    *)
(***************************************************************************)
NumReq == 2          \* concurrent requests of a serve run
MaxPayload == 2      \* bytes after the 16-byte header in the framing cases
MaxClock == 3        \* last reading of the wall clock

(***************************************************************************)
(* Bytes and 64-bit words.                                                 *)
(***************************************************************************)
ByteBase == 256
Limb == ByteBase * ByteBase * ByteBase
TopLimb == ByteBase * ByteBase

RECURSIVE ToLeBytes(_, _)
\* n.to_le_bytes() truncated/extended to k bytes, for a natural n
ToLeBytes(n, k) ==
    IF k = 0 THEN <<>> ELSE <<n % ByteBase>> \o ToLeBytes(n \div ByteBase, k - 1)

\* u64::from_le_bytes(b) for an 8-byte b
U64FromLeBytes(b) ==
    [l0 |-> b[1] + ByteBase * b[2] + ByteBase * ByteBase * b[3],
     l1 |-> b[4] + ByteBase * b[5] + ByteBase * ByteBase * b[6],
     l2 |-> b[7] + ByteBase * b[8]]

\* a small natural as a usize
UsizeOf(n) == [l0 |-> n % Limb, l1 |-> n \div Limb, l2 |-> 0]

\* a + b on usize: the wrapped sum and whether it overflowed
UsizeAdd(a, b) ==
    LET s0 == a.l0 + b.l0
        s1 == a.l1 + b.l1 + (s0 \div Limb)
        s2 == a.l2 + b.l2 + (s1 \div Limb)
    IN  [val |-> [l0 |-> s0 % Limb, l1 |-> s1 % Limb, l2 |-> s2 % TopLimb],
         overflow |-> s2 >= TopLimb]

UsizeLeq(a, b) ==
    \/ a.l2 < b.l2
    \/ a.l2 = b.l2 /\ a.l1 < b.l1
    \/ a.l2 = b.l2 /\ a.l1 = b.l1 /\ a.l0 <= b.l0

\* the natural a usize stands for; used only below a sequence's length
UsizeToNat(a) == a.l0 + Limb * a.l1

\* the operator + of the build: Err (a panic) on overflow with overflow checks
CheckedAdd(a, b, checks) ==
    LET s == UsizeAdd(a, b)
    IN  IF s.overflow /\ checks THEN [ok |-> FALSE, val |-> s.val]
        ELSE [ok |-> TRUE, val |-> s.val]

\* &v[start..end] with usize bounds: panics when start > end or end > v.len()
SliceRange(v, start, end) ==
    IF ~UsizeLeq(start, end) \/ ~UsizeLeq(end, UsizeOf(Len(v)))
    THEN [ok |-> FALSE, val |-> <<>>]
    ELSE [ok |-> TRUE, val |-> SubSeq(v, UsizeToNat(start) + 1, UsizeToNat(end))]

(***************************************************************************)
(* The collaborators outside this file: the serializers of Proof and of a  *)
(* field element, the circuit's witness loader, Prover::prove and          *)
(* Verifier::verify.  A Proof is its byte vector, serialized with its      *)
(* length in front (self-delimiting); a field element is FieldWidth bytes. *)
(***************************************************************************)
WordBytes == 8
FieldWidth == 2

RECURSIVE NatFromLeBytes(_)
NatFromLeBytes(b) ==
    IF b = <<>> THEN 0 ELSE Head(b) + ByteBase * NatFromLeBytes(Tail(b))

Err == [ok |-> FALSE]

\* Proof::serialize_into: the bytes written
ProofSerialize(proof) == ToLeBytes(Len(proof), WordBytes) \o proof

\* Proof::deserialize_from on a cursor over bytes: the proof and what is left
ProofDeserialize(bytes) ==
    IF Len(bytes) < WordBytes THEN Err
    ELSE LET n == U64FromLeBytes(SubSeq(bytes, 1, WordBytes))
         IN  IF ~UsizeLeq(n, UsizeOf(Len(bytes) - WordBytes)) THEN Err
             ELSE [ok |-> TRUE,
                   val |-> SubSeq(bytes, WordBytes + 1, WordBytes + UsizeToNat(n)),
                   rest |-> SubSeq(bytes, WordBytes + UsizeToNat(n) + 1, Len(bytes))]

\* F::serialize_into: the bytes written
FieldSerialize(v) == ToLeBytes(v, FieldWidth)

\* F::deserialize_from on a cursor over bytes
FieldDeserialize(bytes) ==
    IF Len(bytes) < FieldWidth THEN Err
    ELSE [ok |-> TRUE,
          val |-> NatFromLeBytes(SubSeq(bytes, 1, FieldWidth)),
          rest |-> SubSeq(bytes, FieldWidth + 1, Len(bytes))]

\* Circuit::load_witness_bytes / load_witness_file: the witness and its public
\* input, taken here to be the leading (at most two) entries of the witness
PublicInputOf(witness) ==
    IF Len(witness) <= 2 THEN witness ELSE SubSeq(witness, 1, 2)
LoadWitness(c, witness) ==
    [c EXCEPT !.witness = witness, !.public_input = PublicInputOf(witness)]

RECURSIVE SumBytes(_)
SumBytes(b) == IF b = <<>> THEN 0 ELSE Head(b) + SumBytes(Tail(b))

\* Prover::prove: the claimed output value and the proof of it
ProverProve(c) == [claimed_v |-> SumBytes(c.witness), proof |-> c.witness]

\* Verifier::verify: accepts exactly what the prover makes for this circuit
VerifierVerify(c, public_input, claimed_v, proof) ==
    /\ proof = c.witness
    /\ claimed_v = SumBytes(c.witness)
    /\ public_input = c.public_input

(***************************************************************************)
(* The codec, lines 18-39.                                                 *)
(***************************************************************************)
\* a mutation: the claimed value is written before the proof
DumpClaimedFirst(proof, claimed_v) ==
    [ok |-> TRUE, val |-> FieldSerialize(claimed_v) \o ProofSerialize(proof)]

dump_proof_and_claimed_v(proof, claimed_v) ==
    [ok |-> TRUE, val |-> ProofSerialize(proof) \o FieldSerialize(claimed_v)]

\* a mutation: the claimed value is read before the proof
LoadClaimedFirst(bytes) ==
    LET v == FieldDeserialize(bytes)
    IN  IF ~v.ok THEN Err
        ELSE LET p == ProofDeserialize(v.rest)
             IN  IF ~p.ok THEN Err
                 ELSE [ok |-> TRUE, proof |-> p.val, claimed_v |-> v.val]

load_proof_and_claimed_v(bytes) ==
    LET p == ProofDeserialize(bytes)
    IN  IF ~p.ok THEN Err
        ELSE LET v == FieldDeserialize(p.rest)
             IN  IF ~v.ok THEN Err
                 ELSE [ok |-> TRUE, proof |-> p.val, claimed_v |-> v.val]

(***************************************************************************)
(* The verify request's framing: the client's side as section 6 of the     *)
(* specification gives it, and the handler's unframing, lines 144-154.     *)
(***************************************************************************)
Frame(W, P) ==
    ToLeBytes(Len(W), WordBytes) \o ToLeBytes(Len(P), WordBytes) \o W \o P

Header == UsizeOf(2 * WordBytes)

\* a mutation: the proof slice starts at the header's end, not at the witness's
UnframeProofAtHeader(body, checks) ==
    IF Len(body) < 2 * WordBytes THEN Err
    ELSE LET wl == U64FromLeBytes(SubSeq(body, 1, WordBytes))
             pl == U64FromLeBytes(SubSeq(body, WordBytes + 1, 2 * WordBytes))
             w == SliceRange(body, Header, UsizeAdd(Header, wl).val)
             p == SliceRange(body, Header, UsizeAdd(Header, pl).val)
         IN  IF ~w.ok \/ ~p.ok THEN Err
             ELSE [ok |-> TRUE, witness_bytes |-> w.val, proof_bytes |-> p.val]

\* a mutation: the slices are clamped to the body instead of checked
UnframeClamped(body, checks) ==
    LET n == Len(body)
        hdr == body \o [i \in 1 .. 2 * WordBytes |-> 0]
        wl == U64FromLeBytes(SubSeq(hdr, 1, WordBytes))
        pl == U64FromLeBytes(SubSeq(hdr, WordBytes + 1, 2 * WordBytes))
        small(x) == IF UsizeLeq(x, UsizeOf(n)) THEN UsizeToNat(x) ELSE n
        e1 == IF 2 * WordBytes + small(wl) > n THEN n ELSE 2 * WordBytes + small(wl)
        e2 == IF e1 + small(pl) > n THEN n ELSE e1 + small(pl)
    IN  [ok |-> TRUE, witness_bytes |-> SubSeq(body, 2 * WordBytes + 1, e1),
         proof_bytes |-> SubSeq(body, e1 + 1, e2)]

VerifyUnframe(body, checks) ==
    IF Len(body) < WordBytes THEN Err                      \* [0..8] panics
    ELSE IF Len(body) < 2 * WordBytes THEN Err             \* [8..16] panics
    ELSE LET wl == U64FromLeBytes(SubSeq(body, 1, WordBytes))
             pl == U64FromLeBytes(SubSeq(body, WordBytes + 1, 2 * WordBytes))
             e1 == CheckedAdd(Header, wl, checks)
         IN  IF ~e1.ok THEN Err                             \* 16 + wl overflows
             ELSE LET w == SliceRange(body, Header, e1.val)
                  IN  IF ~w.ok THEN Err
                      ELSE LET e2 == CheckedAdd(e1.val, pl, checks)
                           IN  IF ~e2.ok THEN Err          \* 16 + wl + pl overflows
                               ELSE LET p == SliceRange(body, e1.val, e2.val)
                                    IN  IF ~p.ok THEN Err
                                        ELSE [ok |-> TRUE,
                                              witness_bytes |-> w.val,
                                              proof_bytes |-> p.val]

(***************************************************************************)
(* The serve command, lines 103-174.  Each request is a task running one   *)
(* handler closure; a handler's position is req[r].pc.  A Mutex is owned   *)
(* by at most one request, lock() blocks while it is owned, and a guard    *)
(* dropped by a panicking handler poisons its Mutex, after which           *)
(* lock().unwrap() panics.                                                 *)
(***************************************************************************)
Reqs == 1 .. NumReq
Clock == 0 .. MaxClock
Guards == {"Circuit", "Prover", "Verifier"}

NoReq ==
    [kind |-> "none", body |-> <<>>, pc |-> "idle", witness_bytes |-> <<>>,
     proof_bytes |-> <<>>, public_input |-> <<>>, proof |-> <<>>, claimed_v |-> 0,
     status |-> 0, resp |-> <<>>, text |-> "", panic_at |-> "", done_at |-> 0]

StatusOK == 200

\* exit statuses of the process
ExitOk == 0
ExitUnknownField == 1
ExitPanic == 101
AbortStatus == 134

serveFrame == <<overflow_checks, panic_abort, args, stdout, fs, fs_reads, fs_writes,
                mpi_config, field_type, config, run_count, result, now, ready_time,
                ready_seen, codec, prev>>

Serving == pc = "serving"

\* a mutation: a panicking request gives its guards back unpoisoned
PanicWithoutPoison(r) ==
    /\ req' = [req EXCEPT ![r].pc = "panicked", ![r].panic_at = req[r].pc]
    /\ guard' = [g \in Guards |-> IF guard[g] = r THEN 0 ELSE guard[g]]
    /\ UNCHANGED <<poisoned, pc, exit_code>>

\* request r panics where it stands: its guards are dropped poisoned, its task
\* ends without a response; under panic = "abort" the process ends with it
Panic(r) ==
    /\ req' = [req EXCEPT ![r].pc = "panicked", ![r].panic_at = req[r].pc]
    /\ guard' = [g \in Guards |-> IF guard[g] = r THEN 0 ELSE guard[g]]
    /\ poisoned' = [g \in Guards |-> poisoned[g] \/ guard[g] = r]
    /\ IF panic_abort
       THEN pc' = "exited" /\ exit_code' = AbortStatus
       ELSE UNCHANGED <<pc, exit_code>>

\* mutex.lock().unwrap() by request r, then the handler goes on at `next`
Lock(r, g, next) ==
    /\ guard[g] = 0
    /\ IF poisoned[g]
       THEN Panic(r)
       ELSE /\ guard' = [guard EXCEPT ![g] = r]
            /\ req' = [req EXCEPT ![r].pc = next]
            /\ UNCHANGED <<poisoned, pc, exit_code>>

\* the guards of request r are dropped at the end of its handler
Release(r) == guard' = [g \in Guards |-> IF guard[g] = r THEN 0 ELSE guard[g]]

\* lines 127-129: a POST /prove request arrives with its body
ProveReceive(r, body) ==
    /\ Serving /\ req[r].pc = "idle"
    /\ req' = [req EXCEPT ![r] = [NoReq EXCEPT !.kind = "prove", !.body = body,
                                                !.witness_bytes = body,
                                                !.pc = "lock_circuit"]]
    /\ UNCHANGED <<serveFrame, pc, exit_code, circuit, guard, poisoned>>

\* a mutation: the handler goes on without the Circuit guard
LockCircuitSkipped(r) ==
    /\ Serving /\ req[r].kind = "prove" /\ req[r].pc = "lock_circuit"
    /\ req' = [req EXCEPT ![r].pc = "lock_prover"]
    /\ UNCHANGED <<serveFrame, pc, exit_code, circuit, guard, poisoned>>

\* a mutation: the Prover guard is taken first
ProveLocksProverFirst(r) ==
    /\ Serving /\ req[r].kind = "prove" /\ req[r].pc = "lock_circuit"
    /\ Lock(r, "Prover", "lock_prover")
    /\ UNCHANGED <<serveFrame, circuit>>

\* line 130
ProveLockCircuit(r) ==
    /\ Serving /\ req[r].kind = "prove" /\ req[r].pc = "lock_circuit"
    /\ Lock(r, "Circuit", "lock_prover")
    /\ UNCHANGED <<serveFrame, circuit>>

\* a mutation: the handler goes on to the witness load without the Prover guard
ProverGuardSkipped(r) ==
    /\ Serving /\ req[r].kind = "prove" /\ req[r].pc = "lock_prover"
    /\ req' = [req EXCEPT ![r].pc = "load"]
    /\ UNCHANGED <<serveFrame, pc, exit_code, circuit, guard, poisoned>>

\* line 131
ProveLockProver(r) ==
    /\ Serving /\ req[r].kind = "prove" /\ req[r].pc = "lock_prover"
    /\ Lock(r, "Prover", "load")
    /\ UNCHANGED <<serveFrame, circuit>>

\* line 132
ProveLoadWitness(r) ==
    /\ Serving /\ req[r].kind = "prove" /\ req[r].pc = "load"
    /\ circuit' = LoadWitness(circuit, req[r].witness_bytes)
    /\ req' = [req EXCEPT ![r].pc = "prove"]
    /\ UNCHANGED <<serveFrame, pc, exit_code, guard, poisoned>>

\* a mutation: the Prover guard is dropped as soon as prove has returned
ProveRunDropsProver(r) ==
    /\ Serving /\ req[r].kind = "prove" /\ req[r].pc = "prove"
    /\ LET out == ProverProve(circuit)
       IN  req' = [req EXCEPT ![r].pc = "reply", ![r].proof = out.proof,
                               ![r].claimed_v = out.claimed_v]
    /\ guard' = [guard EXCEPT !["Prover"] = 0]
    /\ UNCHANGED <<serveFrame, pc, exit_code, circuit, poisoned>>

\* line 133
ProveRun(r) ==
    /\ Serving /\ req[r].kind = "prove" /\ req[r].pc = "prove"
    /\ LET out == ProverProve(circuit)
       IN  req' = [req EXCEPT ![r].pc = "reply", ![r].proof = out.proof,
                               ![r].claimed_v = out.claimed_v]
    /\ UNCHANGED <<serveFrame, pc, exit_code, circuit, guard, poisoned>>

\* a mutation: the reply is sent and the guards are never dropped
ProveReplyKeepsGuards(r) ==
    /\ Serving /\ req[r].kind = "prove" /\ req[r].pc = "reply"
    /\ req' = [req EXCEPT ![r].pc = "done", ![r].status = StatusOK,
                           ![r].resp = dump_proof_and_claimed_v(req[r].proof,
                                                                req[r].claimed_v).val,
                           ![r].done_at = now]
    /\ UNCHANGED <<serveFrame, pc, exit_code, circuit, guard, poisoned>>

\* lines 134-138: the reply is built and the closure ends, dropping both guards
ProveReply(r) ==
    /\ Serving /\ req[r].kind = "prove" /\ req[r].pc = "reply"
    /\ LET bytes == dump_proof_and_claimed_v(req[r].proof, req[r].claimed_v)
       IN  IF ~bytes.ok
           THEN Panic(r)
           ELSE /\ req' = [req EXCEPT ![r].pc = "done", ![r].status = StatusOK,
                                       ![r].resp = bytes.val, ![r].done_at = now]
                /\ Release(r)
                /\ UNCHANGED <<poisoned, pc, exit_code>>
    /\ UNCHANGED <<serveFrame, circuit>>

\* lines 142-154: a POST /verify request arrives and its body is unframed
VerifyReceive(r, body) ==
    /\ Serving /\ req[r].pc = "idle"
    /\ LET u == VerifyUnframe(body, overflow_checks)
           got == [NoReq EXCEPT !.kind = "verify", !.body = body]
       IN  IF ~u.ok
           THEN /\ req' = [req EXCEPT ![r] = [got EXCEPT !.pc = "panicked",
                                                          !.panic_at = "unframe"]]
                /\ IF panic_abort
                   THEN pc' = "exited" /\ exit_code' = AbortStatus
                   ELSE UNCHANGED <<pc, exit_code>>
           ELSE /\ req' = [req EXCEPT ![r] = [got EXCEPT !.pc = "lock_circuit",
                                               !.witness_bytes = u.witness_bytes,
                                               !.proof_bytes = u.proof_bytes]]
                /\ UNCHANGED <<pc, exit_code>>
    /\ UNCHANGED <<serveFrame, circuit, guard, poisoned>>

\* line 156
VerifyLockCircuit(r) ==
    /\ Serving /\ req[r].kind = "verify" /\ req[r].pc = "lock_circuit"
    /\ Lock(r, "Circuit", "lock_verifier")
    /\ UNCHANGED <<serveFrame, circuit>>

\* a mutation: the handler goes on to the witness load without the Verifier guard
VerifierGuardSkipped(r) ==
    /\ Serving /\ req[r].kind = "verify" /\ req[r].pc = "lock_verifier"
    /\ req' = [req EXCEPT ![r].pc = "load"]
    /\ UNCHANGED <<serveFrame, pc, exit_code, circuit, guard, poisoned>>

\* line 157
VerifyLockVerifier(r) ==
    /\ Serving /\ req[r].kind = "verify" /\ req[r].pc = "lock_verifier"
    /\ Lock(r, "Verifier", "load")
    /\ UNCHANGED <<serveFrame, circuit>>

\* lines 158-159
VerifyLoadWitness(r) ==
    /\ Serving /\ req[r].kind = "verify" /\ req[r].pc = "load"
    /\ circuit' = LoadWitness(circuit, req[r].witness_bytes)
    /\ req' = [req EXCEPT ![r].pc = "decode",
                           ![r].public_input = circuit'.public_input]
    /\ UNCHANGED <<serveFrame, pc, exit_code, guard, poisoned>>

\* line 160
VerifyDecode(r) ==
    /\ Serving /\ req[r].kind = "verify" /\ req[r].pc = "decode"
    /\ LET d == load_proof_and_claimed_v(req[r].proof_bytes)
       IN  IF ~d.ok
           THEN Panic(r)
           ELSE /\ req' = [req EXCEPT ![r].pc = "verify", ![r].proof = d.proof,
                                       ![r].claimed_v = d.claimed_v]
                /\ UNCHANGED <<guard, poisoned, pc, exit_code>>
    /\ UNCHANGED <<serveFrame, circuit>>

\* a mutation: a rejected proof is answered like an accepted one
VerifyReplyAlwaysSuccess(accepted) == "success"

\* lines 161-165: the text of the reply
VerifyReply(accepted) == IF accepted THEN "success" ELSE "failure"

\* lines 161-166: verify runs, the reply is built and the closure ends
VerifyRun(r) ==
    /\ Serving /\ req[r].kind = "verify" /\ req[r].pc = "verify"
    /\ req' = [req EXCEPT ![r].pc = "done", ![r].status = StatusOK,
                           ![r].text = VerifyReply(VerifierVerify(circuit,
                               req[r].public_input, req[r].claimed_v, req[r].proof))]
    /\ Release(r)
    /\ UNCHANGED <<serveFrame, pc, exit_code, circuit, poisoned>>

\* the wall clock that Utc::now() reads moves on
Tick ==
    /\ now < MaxClock
    /\ now' = now + 1
    /\ UNCHANGED <<buildVars, mainVars, serveVars, circuit, ready_time, ready_seen,
                   codec, prev>>

\* lines 121-123: what the ready closure replies, from the captured timestamp
ReadyReply(since) == [status |-> StatusOK, since |-> since]

\* the ready handler made to read the clock at each request
ReadyReadsClock ==
    /\ Serving
    /\ ready_seen' = ready_seen \cup {ReadyReply(now)}
    /\ UNCHANGED <<buildVars, mainVars, serveVars, circuit, now, ready_time, codec,
                   prev>>

\* the ready handler made to wait for the Circuit first
ReadyLocksCircuit ==
    /\ Serving /\ guard["Circuit"] = 0 /\ ~poisoned["Circuit"]
    /\ ready_seen' = ready_seen \cup {ReadyReply(ready_time)}
    /\ UNCHANGED <<buildVars, mainVars, serveVars, circuit, now, ready_time, codec,
                   prev>>

\* lines 120-123: a GET /ready request is answered; the closure captures
\* ready_time alone and locks nothing
Ready ==
    /\ Serving
    /\ ready_seen' = ready_seen \cup {ReadyReply(ready_time)}
    /\ UNCHANGED <<buildVars, mainVars, serveVars, circuit, now, ready_time, codec,
                   prev>>

(***************************************************************************)
(* The process: main (lines 182-245), the field-type detector (lines       *)
(* 41-54) and the one-shot arms of run_command (lines 63-102).             *)
(***************************************************************************)
Zeros(n) == [i \in 1 .. n |-> 0]

SENTINEL_M31 == <<255, 255, 255, 127>> \o Zeros(28)
SENTINEL_BN254 ==
    <<1, 0, 0, 240, 147, 245, 225, 67, 145, 112, 185, 121, 72, 232, 51, 40,
      93, 88, 129, 129, 182, 69, 80, 184, 41, 160, 49, 225, 114, 78, 100, 48>>
SENTINEL_GF2 == <<2>> \o Zeros(31)

SentinelOffset == 8
SentinelLen == 32
MinArgs == 5

NoFile == [readable |-> FALSE, bytes |-> <<>>]
File(bytes) == [readable |-> TRUE, bytes |-> bytes]

\* str::parse::<i32> on the count arguments in use
ParseI32(s) ==
    CASE s = "-1" -> [ok |-> TRUE, val |-> -1]
      [] s = "0" -> [ok |-> TRUE, val |-> 0]
      [] s = "1" -> [ok |-> TRUE, val |-> 1]
      [] s = "2" -> [ok |-> TRUE, val |-> 2]
      [] s = "3" -> [ok |-> TRUE, val |-> 3]
      [] s = "4" -> [ok |-> TRUE, val |-> 4]
      [] OTHER -> Err

\* lines 104-110: the host parses as four u8 and the port as a number
ParseHostPort(host, port) == host \in {"127.0.0.1", "0.0.0.0"} /\ port \in {"3030"}

\* MPIConfig::is_root
IsRoot(mpi) == mpi.world_rank = 0

\* a panic on the main task ends the process
MainPanic ==
    /\ pc' = "exited"
    /\ exit_code' = IF panic_abort THEN AbortStatus ELSE ExitPanic

mainFrame == <<overflow_checks, panic_abort, guard, poisoned, req, now, ready_time,
               ready_seen, codec, prev>>

UsageLines ==
    <<"Usage: expander-exec prove <input:circuit_file> <input:witness_file> <output:proof>",
      "Usage: expander-exec verify <input:circuit_file> <input:witness_file> <input:proof> <input:mpi_size>",
      "Usage: expander-exec serve <input:circuit_file> <input:host> <input:port>">>

\* a mutation: the command is not checked before the circuit file is read
MainSkipsCommandCheck ==
    /\ pc = "main"
    /\ IF Len(args) < MinArgs
       THEN /\ stdout' = stdout \o UsageLines
            /\ pc' = "exited" /\ exit_code' = ExitOk
            /\ UNCHANGED mpi_config
       ELSE pc' = "detect" /\ UNCHANGED <<stdout, exit_code, mpi_config>>
    /\ UNCHANGED <<mainFrame, args, fs, fs_reads, fs_writes, field_type, config,
                   run_count, circuit, result>>

\* lines 189-209: argument validation
MainValidate ==
    /\ pc = "main"
    /\ IF Len(args) < MinArgs
       THEN /\ stdout' = stdout \o UsageLines
            /\ pc' = "exited" /\ exit_code' = ExitOk
            /\ UNCHANGED mpi_config
       ELSE IF args[2] \notin {"prove", "verify", "serve"}
       THEN /\ stdout' = stdout \o <<"Invalid command.">>
            /\ pc' = "exited" /\ exit_code' = ExitOk
            /\ UNCHANGED mpi_config
       ELSE IF args[2] = "verify" /\ Len(args) > MinArgs
       THEN IF mpi_config.world_size # 1 \/ ~ParseI32(args[6]).ok
            THEN MainPanic /\ UNCHANGED <<stdout, mpi_config>>
            ELSE /\ mpi_config' = [mpi_config EXCEPT !.world_size = ParseI32(args[6]).val]
                 /\ pc' = "detect"
                 /\ UNCHANGED <<stdout, exit_code>>
       ELSE pc' = "detect" /\ UNCHANGED <<stdout, exit_code, mpi_config>>
    /\ UNCHANGED <<mainFrame, args, fs, fs_reads, fs_writes, field_type, config,
                   run_count, circuit, result>>

\* a mutation: an unknown sentinel is taken for M31
DetectDefaultsToM31(file) ==
    IF ~file.readable THEN [outcome |-> "panic", field_type |-> "none"]
    ELSE IF Len(file.bytes) < SentinelOffset + SentinelLen
    THEN [outcome |-> "panic", field_type |-> "none"]
    ELSE LET field_bytes == SubSeq(file.bytes, SentinelOffset + 1,
                                   SentinelOffset + SentinelLen)
         IN  IF field_bytes = SENTINEL_BN254 THEN [outcome |-> "ok", field_type |-> "BN254"]
             ELSE IF field_bytes = SENTINEL_GF2 THEN [outcome |-> "ok", field_type |-> "GF2"]
             ELSE [outcome |-> "ok", field_type |-> "M31"]

\* lines 41-54
detect_field_type_from_circuit_file(file) ==
    IF ~file.readable THEN [outcome |-> "panic", field_type |-> "none"]
    ELSE IF Len(file.bytes) < SentinelOffset + SentinelLen
    THEN [outcome |-> "panic", field_type |-> "none"]
    ELSE LET field_bytes == SubSeq(file.bytes, SentinelOffset + 1,
                                   SentinelOffset + SentinelLen)
         IN  IF field_bytes = SENTINEL_M31 THEN [outcome |-> "ok", field_type |-> "M31"]
             ELSE IF field_bytes = SENTINEL_BN254 THEN [outcome |-> "ok", field_type |-> "BN254"]
             ELSE IF field_bytes = SENTINEL_GF2 THEN [outcome |-> "ok", field_type |-> "GF2"]
             ELSE [outcome |-> "exit", field_type |-> "none"]

\* lines 211-213
MainDetect ==
    /\ pc = "detect"
    /\ fs_reads' = fs_reads \cup {args[3]}
    /\ LET d == detect_field_type_from_circuit_file(fs[args[3]])
       IN  CASE d.outcome = "ok" ->
                  /\ field_type' = d.field_type
                  /\ pc' = "dispatch"
                  /\ UNCHANGED <<stdout, exit_code>>
             [] d.outcome = "exit" ->
                  /\ stdout' = stdout \o <<"Unknown field type.">>
                  /\ pc' = "exited" /\ exit_code' = ExitUnknownField
                  /\ UNCHANGED field_type
             [] OTHER -> MainPanic /\ UNCHANGED <<stdout, field_type>>
    /\ UNCHANGED <<mainFrame, args, fs, fs_writes, mpi_config, config, run_count,
                   circuit, result>>

\* the configuration each arm of lines 214-242 instantiates
\* a mutation: the GF2 tag is given the M31 configuration
ConfigOfGF2AsM31(ft) ==
    CASE ft = "M31" -> "M31ExtConfigSha2"
      [] ft = "BN254" -> "BN254ConfigMIMC5"
      [] ft = "GF2" -> "M31ExtConfigSha2"

\* lines 214-242: the configuration each field type is dispatched to
ConfigOf(ft) ==
    CASE ft = "M31" -> "M31ExtConfigSha2"
      [] ft = "BN254" -> "BN254ConfigMIMC5"
      [] ft = "GF2" -> "GF2ExtConfigSha2"

\* lines 214-242: run_command::<C> is entered
MainDispatch ==
    /\ pc = "dispatch"
    /\ config' = ConfigOf(field_type)
    /\ run_count' = run_count + 1
    /\ pc' = args[2]
    /\ UNCHANGED <<mainFrame, args, stdout, exit_code, fs, fs_reads, fs_writes,
                   mpi_config, field_type, circuit, result>>

NoCircuit == [witness |-> <<>>, public_input |-> <<>>]
NoResult == [claimed_v |-> 0, proof |-> <<>>]
NoPrev == [args |-> <<>>, mpi_config |-> [world_rank |-> 0, world_size |-> 1],
           exit_code |-> -1, result |-> NoResult, fs_writes |-> 0]

\* lines 63-70: the circuit and the witness are loaded and the prover runs
RunProveCompute ==
    /\ pc = "prove"
    /\ fs_reads' = fs_reads \cup {args[3], args[4]}
    /\ IF ~fs[args[4]].readable
       THEN MainPanic /\ UNCHANGED <<circuit, result>>
       ELSE /\ circuit' = LoadWitness(NoCircuit, fs[args[4]].bytes)
            /\ result' = ProverProve(circuit')
            /\ pc' = "prove_write"
            /\ UNCHANGED exit_code
    /\ UNCHANGED <<mainFrame, args, stdout, fs, fs_writes, mpi_config, field_type,
                   config, run_count>>

\* a mutation: every participant writes the output file
WriteOutputOnAnyRank(mpi) == TRUE

\* line 72: only the coordinator writes
WritesOutput(mpi) == IsRoot(mpi)

\* lines 72-77: the encoded result is written; fs::write may fail
RunProveWrite ==
    /\ pc = "prove_write"
    /\ IF WritesOutput(mpi_config)
       THEN \E written \in BOOLEAN :
               IF written
               THEN /\ fs' = [fs EXCEPT ![args[5]] =
                                File(dump_proof_and_claimed_v(result.proof,
                                                              result.claimed_v).val)]
                    /\ fs_writes' = fs_writes + 1
                    /\ pc' = "finalize"
                    /\ UNCHANGED exit_code
               ELSE MainPanic /\ UNCHANGED <<fs, fs_writes>>
       ELSE pc' = "finalize" /\ UNCHANGED <<fs, fs_writes, exit_code>>
    /\ UNCHANGED <<mainFrame, args, stdout, fs_reads, mpi_config, field_type, config,
                   run_count, circuit, result>>

RECURSIVE AppendCopies(_, _, _)
\* lines 89-93: k times, the first n entries are appended
AppendCopies(public_input, n, k) ==
    IF k <= 0 THEN public_input
    ELSE AppendCopies(public_input \o SubSeq(public_input, 1, n), n, k - 1)

\* a mutation: one copy too many is appended
ReplicateOnceMore(public_input, mpi_size) ==
    AppendCopies(public_input, Len(public_input), mpi_size)

\* lines 87-93
Replicate(public_input, mpi_size) ==
    AppendCopies(public_input, Len(public_input), mpi_size - 1)

\* lines 79-94: the circuit and the witness are loaded, the public input repeated
RunVerifyLoad ==
    /\ pc = "verify"
    /\ fs_reads' = fs_reads \cup {args[3], args[4]}
    /\ IF ~fs[args[4]].readable
       THEN MainPanic /\ UNCHANGED circuit
       ELSE LET c == LoadWitness(NoCircuit, fs[args[4]].bytes)
            IN  IF Len(args) > MinArgs
                THEN IF ~ParseI32(args[6]).ok
                     THEN MainPanic /\ UNCHANGED circuit
                     ELSE /\ circuit' = [c EXCEPT !.public_input =
                                           Replicate(c.public_input, ParseI32(args[6]).val)]
                          /\ pc' = "verify_check"
                          /\ UNCHANGED exit_code
                ELSE circuit' = c /\ pc' = "verify_check" /\ UNCHANGED exit_code
    /\ UNCHANGED <<mainFrame, args, stdout, fs, fs_writes, mpi_config, field_type,
                   config, run_count, result>>

\* a mutation: a rejected proof is printed as a failure and the run goes on
VerifyOutcomePrinted(accepted) ==
    [panic |-> FALSE, out |-> IF accepted THEN <<"success">> ELSE <<"failure">>]

\* lines 100-101: assert!(verifier.verify(..)); println!("success")
VerifyOutcome(accepted) ==
    IF accepted THEN [panic |-> FALSE, out |-> <<"success">>]
    ELSE [panic |-> TRUE, out |-> <<>>]

\* lines 95-101: the proof file is read and decoded, and the verifier runs
RunVerifyCheck ==
    /\ pc = "verify_check"
    /\ fs_reads' = fs_reads \cup {args[5]}
    /\ IF ~fs[args[5]].readable
       THEN MainPanic /\ UNCHANGED stdout
       ELSE LET d == load_proof_and_claimed_v(fs[args[5]].bytes)
            IN  IF ~d.ok
                THEN MainPanic /\ UNCHANGED stdout
                ELSE LET o == VerifyOutcome(VerifierVerify(circuit, circuit.public_input,
                                                           d.claimed_v, d.proof))
                     IN  IF o.panic
                         THEN MainPanic /\ UNCHANGED stdout
                         ELSE /\ stdout' = stdout \o o.out
                              /\ pc' = "finalize"
                              /\ UNCHANGED exit_code
    /\ UNCHANGED <<mainFrame, args, fs, fs_writes, mpi_config, field_type, config,
                   run_count, circuit, result>>

\* lines 104-119: the address is parsed and the shared state is built
RunServe ==
    /\ pc = "serve"
    /\ fs_reads' = fs_reads \cup {args[3]}
    /\ IF ~ParseHostPort(args[4], args[5])
       THEN MainPanic /\ UNCHANGED <<circuit, guard, poisoned, req, ready_time>>
       ELSE /\ circuit' = NoCircuit
            /\ guard' = [g \in Guards |-> 0]
            /\ poisoned' = [g \in Guards |-> FALSE]
            /\ req' = [r \in Reqs |-> NoReq]
            /\ ready_time' = now
            /\ pc' = "serving"
            /\ UNCHANGED exit_code
    /\ UNCHANGED <<overflow_checks, panic_abort, codec, args, stdout, fs, fs_writes,
                   mpi_config, field_type, config, run_count, result, now,
                   ready_seen, prev>>

\* line 244, and the return of main
MainFinalize ==
    /\ pc = "finalize"
    /\ pc' = "exited"
    /\ exit_code' = ExitOk
    /\ UNCHANGED <<mainFrame, args, stdout, fs, fs_reads, fs_writes, mpi_config,
                   field_type, config, run_count, circuit, result>>

\* the argument lists of a verify run over the files of a prove run of
\* world_size participants: the same circuit and witness, the prove run's output
\* as the proof, and world_size as the count (none will do for a single one)
VerifyArgvsAfter(a, world_size) ==
    IF world_size = 1
    THEN {<<a[1], "verify", a[3], a[4], a[5]>>,
          <<a[1], "verify", a[3], a[4], a[5], "1">>}
    ELSE {<<a[1], "verify", a[3], a[4], a[5], "2">>}

\* lines 182-189: after a prove run has ended the program is started again, as a
\* single process, to verify over the files that run has left
Exec ==
    /\ pc = "exited" /\ prev = NoPrev
    /\ Len(args) >= MinArgs /\ args[2] = "prove"
    /\ prev' = [args |-> args, mpi_config |-> mpi_config, exit_code |-> exit_code,
                result |-> result, fs_writes |-> fs_writes]
    /\ args' \in VerifyArgvsAfter(args, mpi_config.world_size)
    /\ mpi_config' = [world_rank |-> 0, world_size |-> 1]
    /\ pc' = "main" /\ stdout' = <<>> /\ exit_code' = -1
    /\ fs_reads' = {} /\ fs_writes' = 0
    /\ field_type' = "none" /\ config' = "none" /\ run_count' = 0
    /\ circuit' = NoCircuit /\ result' = NoResult
    /\ UNCHANGED <<overflow_checks, panic_abort, fs, guard, poisoned, req, now,
                   ready_time, ready_seen, codec>>

(***************************************************************************)
(* The codec applied on its own: a pair is dumped, the bytes are possibly  *)
(* cut short, and the bytes are loaded.                                    *)
(***************************************************************************)
NoCodec == [pc |-> "off", proof |-> <<>>, claimed_v |-> 0, bytes |-> <<>>,
            cut |-> FALSE, loaded |-> Err]

codecFrame == <<overflow_checks, panic_abort, args, pc, stdout, exit_code, fs,
                fs_reads, fs_writes, mpi_config, field_type, config, run_count,
                circuit, result, guard, poisoned, req, now, ready_time, ready_seen,
                prev>>

CodecDump ==
    /\ codec.pc = "start"
    /\ codec' = [codec EXCEPT !.pc = "dumped",
                              !.bytes = dump_proof_and_claimed_v(codec.proof,
                                                                 codec.claimed_v).val]
    /\ UNCHANGED codecFrame

\* the bytes lose their tail before they are loaded
CodecTruncate(k) ==
    /\ codec.pc = "dumped" /\ ~codec.cut
    /\ k < Len(codec.bytes)
    /\ codec' = [codec EXCEPT !.bytes = SubSeq(codec.bytes, 1, k), !.cut = TRUE]
    /\ UNCHANGED codecFrame

CodecLoad ==
    /\ codec.pc = "dumped"
    /\ codec' = [codec EXCEPT !.pc = "loaded",
                              !.loaded = load_proof_and_claimed_v(codec.bytes)]
    /\ UNCHANGED codecFrame

(***************************************************************************)
(* The inputs.                                                             *)
(***************************************************************************)
RECURSIVE SeqsUpTo(_, _)
\* the sequences over S of length at most n
SeqsUpTo(S, n) ==
    IF n = 0 THEN {<<>>}
    ELSE LET shorter == SeqsUpTo(S, n - 1)
         IN  shorter \cup {Append(q, x) : q \in shorter, x \in S}

Witnesses == {<<1>>, <<2, 3>>}

\* what the prover makes for a witness, encoded
ArtifactOf(w) ==
    LET out == ProverProve(LoadWitness(NoCircuit, w))
    IN  dump_proof_and_claimed_v(out.proof, out.claimed_v).val

CircuitBytes(span) == Zeros(SentinelOffset) \o span \o <<9>>

CircuitFiles ==
    {File(CircuitBytes(sp)) : sp \in {SENTINEL_M31, SENTINEL_BN254, SENTINEL_GF2,
                                      Zeros(SentinelLen),
                                      <<255, 255, 255, 127>> \o Zeros(27) \o <<1>>}}
    \cup {File(SubSeq(CircuitBytes(SENTINEL_M31), 1, SentinelOffset + SentinelLen - 1)),
          File(SubSeq(CircuitBytes(SENTINEL_GF2), 1, SentinelOffset + SentinelLen)),
          NoFile}

WitnessFiles == {File(w) : w \in Witnesses} \cup {NoFile}

ProofFiles ==
    {File(ArtifactOf(w)) : w \in Witnesses}
    \cup {File(SubSeq(ArtifactOf(<<1>>), 1, WordBytes + 1)), NoFile}

Prefixes(a) == {SubSeq(a, 1, k) : k \in 1 .. Len(a)}

Argvs ==
    Prefixes(<<"expander-exec", "prove", "circuit", "witness", "proof">>)
    \cup UNION {Prefixes(<<"expander-exec", "verify", "circuit", "witness", "proof", n>>) :
                  n \in {"-1", "1", "2", "3", "x"}}
    \cup UNION {Prefixes(<<"expander-exec", "serve", "circuit", h, "3030">>) :
                  h \in {"127.0.0.1", "localhost"}}
    \cup Prefixes(<<"expander-exec", "check", "circuit", "witness", "proof", "1">>)

MpiConfigs ==
    {[world_rank |-> 0, world_size |-> 1], [world_rank |-> 0, world_size |-> 2],
     [world_rank |-> 1, world_size |-> 2]}

Files == [circuit : CircuitFiles, witness : WitnessFiles, proof : ProofFiles]

ProveBodies == Witnesses

VerifyBodies ==
    {Frame(w, ArtifactOf(a)) : w \in Witnesses, a \in Witnesses}
    \cup {Frame(<<1>>, <<0>>), <<>>}

HeaderWords ==
    {ToLeBytes(n, WordBytes) : n \in 0 .. MaxPayload + 1}
    \cup {[i \in 1 .. WordBytes |-> 255],
          <<240>> \o [i \in 1 .. WordBytes - 1 |-> 255],
          <<239>> \o [i \in 1 .. WordBytes - 1 |-> 255],
          <<0, 0, 0, 1, 0, 0, 0, 0>>,
          <<0, 0, 0, 0, 0, 0, 0, 1>>}

FrameBodies ==
    {h1 \o h2 \o pay : h1 \in HeaderWords, h2 \in HeaderWords,
                       pay \in SeqsUpTo({7, 9}, MaxPayload)}
    \cup {SubSeq(Frame(<<7>>, <<9>>), 1, k) : k \in {0, WordBytes - 1, WordBytes,
                                                     2 * WordBytes - 1}}
    \cup VerifyBodies

CodecProofs == SeqsUpTo({0, 7, 255}, MaxPayload)
CodecValues == {0, 1, 258, 65535}

(***************************************************************************)
(* The specifications.                                                     *)
(***************************************************************************)
InitBuild == overflow_checks \in BOOLEAN /\ panic_abort \in BOOLEAN

ServiceOff ==
    /\ guard = [g \in Guards |-> 0]
    /\ poisoned = [g \in Guards |-> FALSE]
    /\ req = [r \in Reqs |-> NoReq]
    /\ ready_seen = {}

\* the process starts: main is entered with its arguments, files and MPI setting
Init ==
    /\ InitBuild
    /\ args \in Argvs
    /\ fs \in Files
    /\ mpi_config \in MpiConfigs
    /\ pc = "main" /\ stdout = <<>> /\ exit_code = -1
    /\ fs_reads = {} /\ fs_writes = 0
    /\ field_type = "none" /\ config = "none" /\ run_count = 0
    /\ circuit = NoCircuit /\ result = NoResult
    /\ ServiceOff
    /\ now = 0 /\ ready_time = -1
    /\ codec = NoCodec /\ prev = NoPrev

Next ==
    \/ MainValidate
    \/ MainDetect
    \/ MainDispatch
    \/ RunProveCompute
    \/ RunProveWrite
    \/ RunVerifyLoad
    \/ RunVerifyCheck
    \/ RunServe
    \/ MainFinalize

Spec == Init /\ [][Next]_vars

\* the service right after lines 104-119, under each configuration
ServeStart ==
    /\ args = <<"expander-exec", "serve", "circuit", "127.0.0.1", "3030">>
    /\ \E sp \in {SENTINEL_M31, SENTINEL_BN254, SENTINEL_GF2} :
          /\ fs = [circuit |-> File(CircuitBytes(sp)), witness |-> NoFile,
                   proof |-> NoFile]
          /\ field_type = detect_field_type_from_circuit_file(fs.circuit).field_type
    /\ config = ConfigOf(field_type)
    /\ mpi_config = [world_rank |-> 0, world_size |-> 1]
    /\ pc = "serving" /\ stdout = <<>> /\ exit_code = -1
    /\ fs_reads = {"circuit"} /\ fs_writes = 0
    /\ run_count = 1
    /\ circuit = NoCircuit /\ result = NoResult
    /\ ServiceOff
    /\ ready_time = now
    /\ codec = NoCodec /\ prev = NoPrev

\* the bodies sent to the service below form no sum that overflows, so one
\* setting of the overflow checks stands for both
InitServe ==
    /\ overflow_checks = FALSE /\ panic_abort \in BOOLEAN
    /\ now = 0
    /\ ServeStart

NextServe ==
    \/ \E r \in Reqs, body \in ProveBodies : ProveReceive(r, body)
    \/ \E r \in Reqs : ProveLockCircuit(r)
    \/ \E r \in Reqs : ProveLockProver(r)
    \/ \E r \in Reqs : ProveLoadWitness(r)
    \/ \E r \in Reqs : ProveRun(r)
    \/ \E r \in Reqs : ProveReply(r)
    \/ \E r \in Reqs, body \in VerifyBodies : VerifyReceive(r, body)
    \/ \E r \in Reqs : VerifyLockCircuit(r)
    \/ \E r \in Reqs : VerifyLockVerifier(r)
    \/ \E r \in Reqs : VerifyLoadWitness(r)
    \/ \E r \in Reqs : VerifyDecode(r)
    \/ \E r \in Reqs : VerifyRun(r)
    \/ Ready

SpecServe == InitServe /\ [][NextServe]_vars

\* the service with one client sending every framing case, under both settings
\* of the overflow checks
NextFrame ==
    \/ \E body \in FrameBodies : VerifyReceive(1, body)
    \/ VerifyLockCircuit(1)
    \/ VerifyLockVerifier(1)
    \/ VerifyLoadWitness(1)
    \/ VerifyDecode(1)
    \/ VerifyRun(1)

InitFrame == InitBuild /\ now = 0 /\ ServeStart

SpecFrame == InitFrame /\ [][NextFrame]_vars

\* a whole run of each command, the service with its requests included, on
\* every kind of circuit file
RunArgvs ==
    {<<"expander-exec", "prove", "circuit", "witness", "proof">>,
     <<"expander-exec", "verify", "circuit", "witness", "proof">>,
     <<"expander-exec", "serve", "circuit", "127.0.0.1", "3030">>}

InitRun ==
    /\ Init
    /\ overflow_checks = FALSE
    /\ args \in RunArgvs
    /\ fs.witness = File(<<1>>) /\ fs.proof = File(ArtifactOf(<<1>>))
    /\ mpi_config = [world_rank |-> 0, world_size |-> 1]

NextRun == Next \/ NextServe

SpecRun == InitRun /\ [][NextRun]_vars

\* a prove run, on any files and as any participant, followed by a verify run
\* over the files it has left
InitE2E ==
    /\ Init
    /\ args = <<"expander-exec", "prove", "circuit", "witness", "proof">>

NextE2E ==
    \/ MainValidate
    \/ MainDetect
    \/ MainDispatch
    \/ RunProveCompute
    \/ RunProveWrite
    \/ RunVerifyLoad
    \/ RunVerifyCheck
    \/ MainFinalize
    \/ Exec

SpecE2E == InitE2E /\ [][NextE2E]_vars

\* the service with clients that send well-formed requests only (a prove body,
\* or a framed verify body whose proof decodes), every handler task being
\* scheduled again and again: a step of a handler that stays possible is taken
DecodableBodies == {Frame(w, ArtifactOf(a)) : w \in Witnesses, a \in Witnesses}

Step(r) ==
    \/ ProveLockCircuit(r) \/ ProveLockProver(r) \/ ProveLoadWitness(r)
    \/ ProveRun(r) \/ ProveReply(r)
    \/ VerifyLockCircuit(r) \/ VerifyLockVerifier(r) \/ VerifyLoadWitness(r)
    \/ VerifyDecode(r) \/ VerifyRun(r)

InitProgress == InitServe /\ panic_abort = FALSE /\ field_type = "M31"

NextProgress ==
    \/ \E r \in Reqs, body \in ProveBodies : ProveReceive(r, body)
    \/ \E r \in Reqs, body \in DecodableBodies : VerifyReceive(r, body)
    \/ \E r \in Reqs : Step(r)

SpecProgress ==
    InitProgress /\ [][NextProgress]_vars /\ \A r \in Reqs : WF_vars(Step(r))

\* the service started at any time of the clock, with clients that send prove
\* requests and ask whether it is ready while the clock moves on
InitReady ==
    /\ overflow_checks = FALSE /\ panic_abort = FALSE
    /\ now \in Clock
    /\ ServeStart
    /\ field_type = "M31"

NextReady ==
    \/ Tick
    \/ Ready
    \/ \E r \in Reqs, body \in ProveBodies : ProveReceive(r, body)
    \/ \E r \in Reqs : ProveLockCircuit(r)
    \/ \E r \in Reqs : ProveLockProver(r)
    \/ \E r \in Reqs : ProveLoadWitness(r)
    \/ \E r \in Reqs : ProveRun(r)
    \/ \E r \in Reqs : ProveReply(r)

SpecReady == InitReady /\ [][NextReady]_vars

InitCodec ==
    /\ overflow_checks = FALSE /\ panic_abort = FALSE
    /\ args = <<"expander-exec">>
    /\ fs = [circuit |-> NoFile, witness |-> NoFile, proof |-> NoFile]
    /\ mpi_config = [world_rank |-> 0, world_size |-> 1]
    /\ pc = "off" /\ stdout = <<>> /\ exit_code = -1
    /\ fs_reads = {} /\ fs_writes = 0
    /\ field_type = "none" /\ config = "none" /\ run_count = 0
    /\ circuit = NoCircuit /\ result = NoResult
    /\ ServiceOff
    /\ now = 0 /\ ready_time = -1 /\ prev = NoPrev
    /\ \E p \in CodecProofs, v \in CodecValues :
          codec = [NoCodec EXCEPT !.pc = "start", !.proof = p, !.claimed_v = v]

NextCodec ==
    \/ CodecDump
    \/ \E k \in 0 .. MaxPayload + WordBytes + FieldWidth : CodecTruncate(k)
    \/ CodecLoad

SpecCodec == InitCodec /\ [][NextCodec]_vars

(***************************************************************************)
(* Properties of the service (SpecServe).                                  *)
(***************************************************************************)
\* request r is past its acquisition of the Circuit guard and before its end
InHandler(r) ==
    req[r].pc \in {"lock_prover", "lock_verifier", "load", "prove", "reply",
                   "decode", "verify"}

\* request r has loaded its witness and its prove/verify call is not over
LoadedNotDone(r) == req[r].pc \in {"prove", "reply", "decode", "verify"}

\* C1: at most one request at a time is between its acquisition of the Circuit
\* guard and the end of its handler, that request owns the Circuit guard, and
\* from a request's witness load to the end of its prove/verify call the shared
\* circuit holds that request's witness (no other load comes in between).
C1_CircuitMutualExclusion ==
    /\ \A r, s \in Reqs : r # s => ~(InHandler(r) /\ InHandler(s))
    /\ \A r \in Reqs : InHandler(r) => guard["Circuit"] = r
    /\ \A r \in Reqs :
          LoadedNotDone(r) => /\ circuit.witness = req[r].witness_bytes
                              /\ circuit.public_input = PublicInputOf(req[r].witness_bytes)

\* a prove request is past its witness load while a verify request with another
\* witness waits for the Circuit guard
C1_Witness ==
    \E r, s \in Reqs :
        /\ req[r].kind = "prove" /\ req[r].pc = "reply"
        /\ req[s].kind = "verify" /\ req[s].pc = "lock_circuit"
        /\ req[s].witness_bytes # req[r].witness_bytes

\* the guard request r is blocked on, if any
BlockedOn(r) ==
    CASE req[r].pc = "lock_circuit" /\ guard["Circuit"] # 0 -> "Circuit"
      [] req[r].pc = "lock_prover" /\ guard["Prover"] # 0 -> "Prover"
      [] req[r].pc = "lock_verifier" /\ guard["Verifier"] # 0 -> "Verifier"
      [] OTHER -> "none"

\* the request that owns the guard r is blocked on (0: r is not blocked)
WaitsFor(r) == IF BlockedOn(r) = "none" THEN 0 ELSE guard[BlockedOn(r)]

RECURSIVE WaitChain(_, _)
\* the request reached from r after k steps along WaitsFor
WaitChain(r, k) ==
    IF r = 0 \/ k = 0 THEN r ELSE WaitChain(WaitsFor(r), k - 1)

\* some handler that has begun takes its next step
HandlerStep ==
    \E r \in Reqs :
        \/ ProveLockCircuit(r) \/ ProveLockProver(r) \/ ProveLoadWitness(r)
        \/ ProveRun(r) \/ ProveReply(r)
        \/ VerifyLockCircuit(r) \/ VerifyLockVerifier(r) \/ VerifyLoadWitness(r)
        \/ VerifyDecode(r) \/ VerifyRun(r)

\* request r has begun and not ended
InFlight(r) == req[r].pc \notin {"idle", "done", "panicked"}

\* C2: a request that holds or waits for the Prover or Verifier guard holds the
\* Circuit guard, no requests wait for each other's guards in a cycle, and while
\* the service runs and a request is in flight some handler can take a step.
C2_CircuitFirstNoCycle ==
    /\ \A r \in Reqs :
          (\/ req[r].pc \in {"lock_prover", "lock_verifier"}
           \/ guard["Prover"] = r
           \/ guard["Verifier"] = r) => guard["Circuit"] = r
    /\ \A r \in Reqs : \A k \in 1 .. NumReq : WaitChain(r, k) # r
    /\ (Serving /\ \E r \in Reqs : InFlight(r)) => ENABLED HandlerStep

\* a request holding the Circuit guard is about to take the Prover guard while
\* another request is blocked on the Circuit guard
C2_Witness ==
    \E r, s \in Reqs :
        /\ req[r].pc = "lock_prover" /\ guard["Circuit"] = r
        /\ BlockedOn(s) = "Circuit" /\ WaitsFor(s) = r

\* what the verifier answers for the request's own witness, proof and value
ExpectedAccept(q) ==
    LET c == LoadWitness(NoCircuit, q.witness_bytes)
    IN  VerifierVerify(c, c.public_input, q.claimed_v, q.proof)

\* C4: a verify request whose proof decoded ends its handler with status 200 and
\* the body "success" if the verifier accepts and "failure" if it rejects; the
\* step after the decode never fails the request.
C4_VerifyAnswers200 ==
    [][\A r \in Reqs :
          (req[r].kind = "verify" /\ req[r].pc = "verify" /\ req'[r] # req[r]) =>
              /\ req'[r].pc = "done"
              /\ req'[r].status = StatusOK
              /\ req'[r].text = IF ExpectedAccept(req[r]) THEN "success" ELSE "failure"]_vars

\* a verify request was answered 200 "failure"
C4_Witness ==
    \E r \in Reqs :
        /\ req[r].kind = "verify" /\ req[r].pc = "done"
        /\ req[r].status = StatusOK /\ req[r].text = "failure"

(***************************************************************************)
(* Properties of the verify request's framing (SpecFrame).                 *)
(***************************************************************************)
\* the handler of request q got past the unframing of its body
Unframed(q) == q.kind = "verify" /\ q.panic_at # "unframe"

\* the body splits after k payload bytes into a witness and a proof
SplitW(body, k) == SubSeq(body, 2 * WordBytes + 1, 2 * WordBytes + k)
SplitP(body, k) == SubSeq(body, 2 * WordBytes + k + 1, Len(body))

\* C5: a body that is the framing of a witness W and a proof P (two 8-byte
\* little-endian lengths, then W, then P), empty W or P included, is unframed by
\* the verify handler into witness_bytes = W and proof_bytes = P.
C5_FramingRoundTrip ==
    \A r \in Reqs :
        (req[r].kind = "verify" /\ Len(req[r].body) >= 2 * WordBytes) =>
            \A k \in 0 .. Len(req[r].body) - 2 * WordBytes :
                LET W == SplitW(req[r].body, k)
                    P == SplitP(req[r].body, k)
                IN  req[r].body = Frame(W, P) =>
                        /\ Unframed(req[r])
                        /\ req[r].witness_bytes = W
                        /\ req[r].proof_bytes = P

\* a framed body with a non-empty witness and a non-empty proof was unframed
C5_Witness ==
    \E r \in Reqs :
        /\ Unframed(req[r])
        /\ req[r].witness_bytes # <<>> /\ req[r].proof_bytes # <<>>
        /\ req[r].body = Frame(req[r].witness_bytes, req[r].proof_bytes)

\* the declared lengths fit the body, as true integers (no sum is formed)
FitsBody(body) ==
    /\ Len(body) >= 2 * WordBytes
    /\ LET wl == U64FromLeBytes(SubSeq(body, 1, WordBytes))
           pl == U64FromLeBytes(SubSeq(body, WordBytes + 1, 2 * WordBytes))
           room == Len(body) - 2 * WordBytes
       IN  /\ UsizeLeq(wl, UsizeOf(room))
           /\ UsizeLeq(pl, UsizeOf(room - UsizeToNat(wl)))

\* the 64-bit sum 16 + witness_len + proof_len of the body's header wraps around
SumWraps(body) ==
    LET wl == U64FromLeBytes(SubSeq(body, 1, WordBytes))
        pl == U64FromLeBytes(SubSeq(body, WordBytes + 1, 2 * WordBytes))
    IN  \/ UsizeAdd(Header, wl).overflow
        \/ UsizeAdd(UsizeAdd(Header, wl).val, pl).overflow

\* C6: the slices of a verify body are extracted exactly when the body has 16
\* bytes and 16 + witness_len + proof_len, as true integers, is at most its
\* length; otherwise the request fails at the unframing, having acquired no
\* guard, loaded no witness into the shared circuit and called no verify.
C6_IllFittingBodyRejected ==
    \A r \in Reqs :
        req[r].kind = "verify" =>
            /\ Unframed(req[r]) <=> FitsBody(req[r].body)
            /\ ~FitsBody(req[r].body) =>
                  /\ req[r].pc = "panicked" /\ req[r].status = 0
                  /\ req[r].witness_bytes = <<>> /\ req[r].proof_bytes = <<>>
                  /\ \A g \in Guards : guard[g] # r /\ ~poisoned[g]
                  /\ circuit = NoCircuit

\* a body whose 64-bit length sum wraps around was rejected in a build where
\* the sum wraps silently
C6_Witness ==
    \E r \in Reqs :
        /\ req[r].kind = "verify" /\ Len(req[r].body) >= 2 * WordBytes
        /\ ~overflow_checks
        /\ SumWraps(req[r].body)
        /\ req[r].panic_at = "unframe"

(***************************************************************************)
(* Properties of the codec (SpecCodec).                                    *)
(***************************************************************************)
\* C7: loading the bytes dump_proof_and_claimed_v produced gives back the same
\* proof and the same claimed value; the bytes are the proof's serialization
\* followed by the claimed value's fixed-width one; loading a strict prefix of
\* them gives the deserialization error, not a pair.
C7_CodecRoundTrip ==
    /\ (codec.pc = "dumped" /\ ~codec.cut) =>
          /\ codec.bytes = ProofSerialize(codec.proof) \o FieldSerialize(codec.claimed_v)
          /\ Len(codec.bytes) = WordBytes + Len(codec.proof) + FieldWidth
    /\ (codec.pc = "loaded" /\ ~codec.cut) =>
          /\ codec.loaded.ok
          /\ codec.loaded.proof = codec.proof
          /\ codec.loaded.claimed_v = codec.claimed_v
    /\ (codec.pc = "loaded" /\ codec.cut) => codec.loaded = Err

\* a non-empty proof and a two-byte claimed value came back from the bytes
C7_Witness ==
    /\ codec.pc = "loaded" /\ ~codec.cut /\ codec.loaded.ok
    /\ Len(codec.proof) = MaxPayload
    /\ codec.claimed_v >= ByteBase

(***************************************************************************)
(* Properties of the process (Spec).                                       *)
(***************************************************************************)
Commands == {"prove", "verify", "serve"}

\* the arguments pass the validation of lines 190-204
ArgsValid == Len(args) >= MinArgs /\ args[2] \in Commands

\* the detector has run on the circuit file
Detected == pc \notin {"main", "detect"} /\ ArgsValid /\ args[3] \in fs_reads

\* bytes 8..40 of a file that has them
SpanOf(file) == SubSeq(file.bytes, SentinelOffset + 1, SentinelOffset + SentinelLen)
HasSpan(file) == file.readable /\ Len(file.bytes) >= SentinelOffset + SentinelLen

\* C8: once the detector has run, the field type is M31, BN254 or GF2 if bytes
\* 8..40 of the circuit file equal the matching sentinel; for any other span, an
\* unreadable file or a file shorter than 40 bytes there is no field type, the
\* process has ended with a non-zero status and no command was run.
C8_FieldDetection ==
    Detected =>
        LET file == fs[args[3]]
        IN  IF HasSpan(file) /\ SpanOf(file) = SENTINEL_M31 THEN field_type = "M31"
            ELSE IF HasSpan(file) /\ SpanOf(file) = SENTINEL_BN254 THEN field_type = "BN254"
            ELSE IF HasSpan(file) /\ SpanOf(file) = SENTINEL_GF2 THEN field_type = "GF2"
            ELSE /\ field_type = "none"
                 /\ pc = "exited" /\ exit_code \notin {-1, ExitOk}
                 /\ run_count = 0 /\ config = "none"
                 /\ fs_writes = 0 /\ circuit = NoCircuit

\* a readable circuit file with an unknown span ended the process with status 1
C8_Witness ==
    /\ Detected /\ HasSpan(fs[args[3]])
    /\ SpanOf(fs[args[3]]) \notin {SENTINEL_M31, SENTINEL_BN254, SENTINEL_GF2}
    /\ pc = "exited" /\ exit_code = ExitUnknownField

\* C9: with fewer than 5 arguments the process prints the usage lines and
\* returns with status 0; with a command other than prove, verify or serve it
\* prints "Invalid command." and returns with status 0; in both cases no file is
\* read, nothing is detected or dispatched, and the process ends nowhere else.
C9_ArgumentValidation ==
    ~ArgsValid =>
        /\ pc \in {"main", "exited"}
        /\ fs_reads = {} /\ fs_writes = 0
        /\ field_type = "none" /\ config = "none" /\ run_count = 0
        /\ pc = "exited" =>
              /\ exit_code = ExitOk
              /\ stdout = IF Len(args) < MinArgs THEN UsageLines
                          ELSE <<"Invalid command.">>

\* an unknown command with enough arguments was turned down
C9_Witness ==
    /\ Len(args) >= MinArgs /\ args[2] \notin Commands
    /\ pc = "exited" /\ stdout = <<"Invalid command.">>

\* the prove command ran to its end
ProveCompleted ==
    /\ ArgsValid /\ args[2] = "prove"
    /\ pc = "finalize" \/ (pc = "exited" /\ exit_code = ExitOk)

\* C10: in a completed one-shot prove the output file was written if and only if
\* the participant is the coordinator; the coordinator wrote the encoding of the
\* (proof, claimed value) it computed, and every participant computed the same
\* result from the witness file; a participant that is not the coordinator never
\* writes.
C10_CoordinatorWrites ==
    /\ (ArgsValid /\ args[2] = "prove" /\ ~IsRoot(mpi_config)) => fs_writes = 0
    /\ ProveCompleted =>
          /\ fs_writes = (IF IsRoot(mpi_config) THEN 1 ELSE 0)
          /\ result = ProverProve(LoadWitness(NoCircuit, fs[args[4]].bytes))
          /\ IsRoot(mpi_config) =>
                fs[args[5]] = File(ProofSerialize(result.proof)
                                   \o FieldSerialize(result.claimed_v))

\* a participant that is not the coordinator completed prove without a write
C10_Witness ==
    /\ ProveCompleted /\ pc = "exited"
    /\ ~IsRoot(mpi_config) /\ fs_writes = 0
    /\ result.proof # <<>>

\* the verify command read a proof file that decodes
VerifyDecoded ==
    /\ ArgsValid /\ args[2] = "verify"
    /\ pc \in {"finalize", "exited"} /\ args[5] \in fs_reads
    /\ fs[args[5]].readable /\ load_proof_and_claimed_v(fs[args[5]].bytes).ok

\* what the verifier answers in the verify command
VerifyAccepts ==
    LET d == load_proof_and_claimed_v(fs[args[5]].bytes)
    IN  VerifierVerify(circuit, circuit.public_input, d.claimed_v, d.proof)

C11_ReadyNeverBlocks ==
    /\ [](Serving => ENABLED Ready)
    /\ [](\A x \in ready_seen : x.status = StatusOK)
    /\ [][ready_seen' # ready_seen
             => UNCHANGED <<guard, poisoned, circuit, req>>]_vars

\* a ready request has been answered, and can be again, while one request owns
\* the Circuit and another one is blocked on it
C11_Witness ==
    /\ ready_seen # {}
    /\ ENABLED Ready
    /\ \E r, s \in Reqs : guard["Circuit"] = r /\ BlockedOn(s) = "Circuit"

(***************************************************************************)
(* C12: the timestamp of the ready endpoint is taken once, when the        *)
(* service is set up and before any request is accepted, and never         *)
(* changes: every ready response carries that one value, whenever it is    *)
(* asked for, and the value is not later than the completion time of any   *)
(* prove request.                                                          *)
(***************************************************************************)
ProveDone(r) == req[r].kind = "prove" /\ req[r].pc = "done"

C12_ReadyTimeFixed ==
    /\ [](/\ ready_time \in Clock /\ ready_time <= now
          /\ \A x \in ready_seen : x.since = ready_time
          /\ Cardinality(ready_seen) <= 1
          /\ \A r \in Reqs : ProveDone(r) =>
                /\ ready_time <= req[r].done_at
                /\ \A x \in ready_seen : x.since <= req[r].done_at)
    /\ [][ready_time' = ready_time]_vars

\* the service started after time 0, a prove request completed later still, and
\* a ready response carries the start time although the clock has moved on
C12_Witness ==
    /\ ready_time > 0 /\ now > ready_time
    /\ ready_seen = {ReadyReply(ready_time)}
    /\ \E r \in Reqs : ProveDone(r) /\ req[r].done_at > ready_time
                        /\ req[r].done_at < now

(***************************************************************************)
(* C13: prove, then verify.  When the coordinator of a prove run has       *)
(* written its output file and verify is then run on the same circuit and  *)
(* witness with that file as the proof, the file decodes to exactly the    *)
(* (proof, claimed value) pair the prover returned, and the verify run     *)
(* never panics: it prints "success" and ends with exit status 0.          *)
(***************************************************************************)
AfterCoordinatorProve == prev # NoPrev /\ prev.fs_writes = 1

C13_ProveThenVerify ==
    AfterCoordinatorProve =>
        /\ IsRoot(prev.mpi_config) /\ prev.exit_code = ExitOk
        /\ load_proof_and_claimed_v(fs[args[5]].bytes) =
               [ok |-> TRUE, proof |-> prev.result.proof,
                claimed_v |-> prev.result.claimed_v]
        /\ pc = "finalize" => stdout = <<"success">>
        /\ pc = "exited" => exit_code = ExitOk /\ stdout = <<"success">>

\* the verify run that followed a coordinator's prove run has ended
C13_Witness ==
    /\ AfterCoordinatorProve
    /\ prev.result.proof = <<2, 3>>
    /\ args[2] = "verify" /\ pc = "exited" /\ stdout = <<"success">>

(***************************************************************************)
(* C14: once the one-shot verify command has loaded the witness, the       *)
(* public input the verifier is given is, for a replication count n > 1,   *)
(* exactly n copies of the loaded public input one after the other (its    *)
(* length n times the original, every block equal to the original), and    *)
(* with no count, or a count of 1 or less, the loaded public input itself. *)
(***************************************************************************)
Copies(block, n) ==
    [i \in 1 .. n * Len(block) |-> block[((i - 1) % Len(block)) + 1]]

CountOf(a) == IF Len(a) > MinArgs THEN ParseI32(a[6]).val ELSE 1

VerifyLoaded ==
    /\ Len(args) >= MinArgs /\ args[2] = "verify"
    /\ pc = "verify_check" \/ args[5] \in fs_reads

C14_PublicInputReplicated ==
    VerifyLoaded =>
        LET original == PublicInputOf(fs[args[4]].bytes)
            n == CountOf(args)
        IN  /\ n > 1 =>
                /\ Len(circuit.public_input) = n * Len(original)
                /\ circuit.public_input = Copies(original, n)
            /\ n <= 1 => circuit.public_input = original

\* a two-entry public input has been repeated three times
C14_Witness ==
    /\ VerifyLoaded /\ pc = "verify_check"
    /\ CountOf(args) = 3
    /\ circuit.public_input = <<2, 3, 2, 3, 2, 3>>

(***************************************************************************)
(* C15, as the specification words it: a prove request loads its witness   *)
(* holding the Circuit guard but before it acquires the Prover guard.      *)
(* Stated of the request that stands at its witness load.                  *)
(***************************************************************************)
Holds(r, g) == guard[g] = r
Acquires(r, g) == guard[g] # r /\ guard'[g] = r
Moves(r, kind, from) ==
    req[r].kind = kind /\ req[r].pc = from /\ req'[r].pc # from

C15_Original ==
    \A r \in Reqs :
        req[r].kind = "prove" /\ req[r].pc = "load" =>
            Holds(r, "Circuit") /\ ~Holds(r, "Prover")

(***************************************************************************)
(* C15, amended to the order of lines 130-133: a prove request acquires    *)
(* the Circuit guard, then the Prover guard, and only then loads its       *)
(* witness and runs prove.  The Circuit guard is acquired as the           *)
(* handler's first step, holding nothing; the Prover guard is acquired     *)
(* next, holding the Circuit guard and before the witness is loaded; the   *)
(* witness load and the prove call both happen with both guards held.      *)
(***************************************************************************)
C15_ProveStepOrder ==
    [][\A r \in Reqs :
          /\ Acquires(r, "Circuit") /\ req[r].kind = "prove" =>
                /\ req[r].pc = "lock_circuit" /\ req'[r].pc = "lock_prover"
                /\ ~Holds(r, "Prover")
          /\ Acquires(r, "Prover") =>
                /\ req[r].pc = "lock_prover" /\ req'[r].pc = "load"
                /\ Holds(r, "Circuit")
          /\ Moves(r, "prove", "lock_prover") /\ req'[r].pc # "panicked" =>
                Acquires(r, "Prover")
          /\ Moves(r, "prove", "load") =>
                /\ Holds(r, "Circuit") /\ Holds(r, "Prover")
                /\ circuit' = LoadWitness(circuit, req[r].witness_bytes)
                /\ req'[r].pc = "prove"
          /\ Moves(r, "prove", "prove") =>
                /\ Holds(r, "Circuit") /\ Holds(r, "Prover")
                /\ circuit.witness = req[r].witness_bytes
                /\ req'[r].pc = "reply"]_vars

\* a prove request is about to load its witness and owns both guards already
C15_Witness ==
    \E r \in Reqs :
        /\ req[r].kind = "prove" /\ req[r].pc = "load"
        /\ Holds(r, "Circuit") /\ Holds(r, "Prover")
        /\ circuit.witness # req[r].witness_bytes

(***************************************************************************)
(* C16, as the specification words it: a verify request loads its witness  *)
(* and decodes its proof holding the Circuit guard, the Verifier guard     *)
(* not yet held.  Stated of the request that stands at its witness load    *)
(* or at its decode.                                                       *)
(***************************************************************************)
C16_Original ==
    \A r \in Reqs :
        req[r].kind = "verify" /\ req[r].pc \in {"load", "decode"} =>
            Holds(r, "Circuit") /\ ~Holds(r, "Verifier")

(***************************************************************************)
(* C16, amended to the order of lines 156-161: a verify request acquires   *)
(* the Circuit guard, then the Verifier guard, and only then loads its     *)
(* witness, reads the public input, decodes the proof and runs verify.     *)
(* The Circuit guard is acquired as the first step after the unframing,    *)
(* holding nothing; the Verifier guard is acquired next, holding the       *)
(* Circuit guard; the witness load, the reading of the public input, the   *)
(* decode of the proof and the verify call, in this order, all happen      *)
(* with both guards held.                                                  *)
(***************************************************************************)
C16_VerifyStepOrder ==
    [][\A r \in Reqs :
          /\ Acquires(r, "Circuit") /\ req[r].kind = "verify" =>
                /\ req[r].pc = "lock_circuit" /\ req'[r].pc = "lock_verifier"
                /\ ~Holds(r, "Verifier")
          /\ Acquires(r, "Verifier") =>
                /\ req[r].pc = "lock_verifier" /\ req'[r].pc = "load"
                /\ Holds(r, "Circuit")
          /\ Moves(r, "verify", "lock_verifier") /\ req'[r].pc # "panicked" =>
                Acquires(r, "Verifier")
          /\ Moves(r, "verify", "load") =>
                /\ Holds(r, "Circuit") /\ Holds(r, "Verifier")
                /\ circuit' = LoadWitness(circuit, req[r].witness_bytes)
                /\ req'[r].public_input = circuit'.public_input
                /\ req'[r].pc = "decode"
          /\ Moves(r, "verify", "decode") =>
                /\ Holds(r, "Circuit") /\ Holds(r, "Verifier")
                /\ circuit.witness = req[r].witness_bytes
                /\ req'[r].pc \in {"verify", "panicked"}
          /\ Moves(r, "verify", "verify") =>
                /\ Holds(r, "Circuit") /\ Holds(r, "Verifier")
                /\ req'[r].pc = "done"]_vars

\* a verify request has loaded its witness and is about to decode its proof,
\* and owns both guards
C16_Witness ==
    \E r \in Reqs :
        /\ req[r].kind = "verify" /\ req[r].pc = "decode"
        /\ Holds(r, "Circuit") /\ Holds(r, "Verifier")
        /\ circuit.witness = req[r].witness_bytes

(***************************************************************************)
(* C17: a prove request owns both the Circuit guard and the Prover guard   *)
(* without interruption from before its witness load until prove has       *)
(* returned and the response bytes are encoded.  Neither guard is given    *)
(* up part-way: the two are released together, in the step that ends the   *)
(* handler, and a request that has ended owns no guard.                    *)
(***************************************************************************)
HoldsBoth(r) == Holds(r, "Circuit") /\ Holds(r, "Prover")
HoldsNone(r) == \A g \in Guards : ~Holds(r, g)

C17_ProveHoldsBothGuards ==
    /\ [](\A r \in Reqs : req[r].kind = "prove" =>
            /\ req[r].pc \in {"load", "prove", "reply"} => HoldsBoth(r)
            /\ req[r].pc \in {"done", "panicked"} => HoldsNone(r)
            /\ req[r].pc = "done" =>
                  /\ req[r].status = StatusOK
                  /\ req[r].resp = ProofSerialize(req[r].proof)
                                      \o FieldSerialize(req[r].claimed_v))
    /\ [][\A r \in Reqs :
            /\ req[r].kind = "prove"
            /\ \E g \in Guards : Holds(r, g) /\ guard'[g] # r
            => /\ \A g \in Guards : guard'[g] # r
               /\ req'[r].pc \in {"done", "panicked"}
               /\ req'[r].pc = "done" => HoldsBoth(r) /\ req[r].pc = "reply"]_vars

\* a prove request has ended with its encoded response, and the Circuit guard
\* it has released is owned by the next request
C17_Witness ==
    \E r, s \in Reqs :
        /\ ProveDone(r) /\ req[r].resp # <<>> /\ HoldsNone(r)
        /\ r # s /\ Holds(s, "Circuit")

(***************************************************************************)
(* C18: a run whose arguments pass the validation and whose circuit file   *)
(* passes the detection enters run_command exactly once, with the          *)
(* configuration of the detected tag: M31ExtConfigSha2 for the M31         *)
(* sentinel, BN254ConfigMIMC5 for BN254, GF2ExtConfigSha2 for GF2.  Until  *)
(* then there is no configuration; from then on neither the configuration  *)
(* nor the number of invocations changes, whatever the command does and    *)
(* whatever requests a serve run handles.                                  *)
(***************************************************************************)
Dispatched == ArgsValid /\ field_type # "none" /\ pc \notin {"main", "detect", "dispatch"}

ConfigForSpan(span) ==
    IF span = SENTINEL_M31 THEN "M31ExtConfigSha2"
    ELSE IF span = SENTINEL_BN254 THEN "BN254ConfigMIMC5"
    ELSE IF span = SENTINEL_GF2 THEN "GF2ExtConfigSha2"
    ELSE "none"

C18_DispatchOnce ==
    /\ [](IF Dispatched
          THEN /\ run_count = 1
               /\ HasSpan(fs[args[3]])
               /\ config # "none"
               /\ config = ConfigForSpan(SpanOf(fs[args[3]]))
          ELSE run_count = 0 /\ config = "none")
    /\ [][config # "none" => config' = config /\ run_count' = run_count]_vars

\* a service dispatched under the GF2 configuration has answered a request
C18_Witness ==
    /\ Dispatched /\ Serving
    /\ config = "GF2ExtConfigSha2" /\ run_count = 1
    /\ \E r \in Reqs : req[r].pc = "done"

(***************************************************************************)
(* C19: once a well-framed verify request has failed to decode its proof   *)
(* (the unwrap of line 160, under the Circuit and Verifier guards), no     *)
(* prove or verify request completes with status 200 any more.  Either     *)
(* the process has ended (panic = "abort"), or the service runs on with    *)
(* the Circuit and Verifier guards poisoned, no request gets past its      *)
(* first lock, and the requests answered so far are the only ones ever     *)
(* answered.                                                               *)
(***************************************************************************)
DecodeFailed ==
    \E r \in Reqs :
        /\ req[r].kind = "verify" /\ req[r].pc = "panicked"
        /\ req[r].panic_at = "decode"

PastFirstLock(r) ==
    req[r].pc \in {"lock_prover", "lock_verifier", "load", "decode", "prove",
                   "verify", "reply"}

C19_DecodeFailurePoisons ==
    /\ [](DecodeFailed =>
            /\ IF panic_abort
               THEN pc = "exited" /\ exit_code = AbortStatus
               ELSE Serving /\ poisoned["Circuit"] /\ poisoned["Verifier"]
            /\ \A s \in Reqs : ~PastFirstLock(s) /\ HoldsNone(s))
    /\ [][DecodeFailed =>
            \A s \in Reqs :
                /\ req'[s].status = StatusOK => req[s].status = StatusOK
                /\ req'[s].pc = "done" => req[s].pc = "done"]_vars

\* after the failed decode a later request has come and has panicked at its
\* first lock, the Circuit guard being poisoned
C19_Witness ==
    /\ DecodeFailed /\ Serving
    /\ \E s \in Reqs :
          /\ req[s].kind = "prove" /\ req[s].pc = "panicked"
          /\ req[s].panic_at = "lock_circuit"

(***************************************************************************)
(* C20: with well-formed requests whose proofs decode, calls that return   *)
(* and handler tasks that are scheduled fairly, every request that has     *)
(* been received is eventually answered with status 200 and owns no guard  *)
(* any more: no request waits for ever on a guard.                         *)
(***************************************************************************)
Answered(r) == req[r].pc = "done" /\ req[r].status = StatusOK /\ HoldsNone(r)

C20_EveryRequestCompletes ==
    \A r \in Reqs : (req[r].pc # "idle") ~> Answered(r)

\* every request, prove and verify requests among them, has been answered
C20_Witness ==
    /\ \A r \in Reqs : Answered(r)
    /\ \E r, s \in Reqs : req[r].kind = "prove" /\ req[s].kind = "verify"

====
